---- MODULE Spec2Model ----
(***************************************************************************)
(* Model of InventoryModule.parse of inventory_plugins/controllerx.py: one *)
(* run of the Controller inventory plugin, from the validation of          *)
(* inventory_name to reconcile_inventory.                                  *)
(*                                                                         *)
(* The inventory object the plugin fills (self.inventory, Ansible's        *)
(* InventoryData) is modelled by the variables groups, hosts, members,     *)
(* children, gvars and hvars.  They hold what the run passes to it:        *)
(* groups is the set of names add_group was called with.  The groups 'all' *)
(* and 'ungrouped' that InventoryData creates on its own are always there. *)
(*                                                                         *)
(* A regular expression is modelled by the set of names re.search finds a  *)
(* match in; a filter option is unset, an invalid expression, or such a    *)
(* set.                                                                    *)
(***************************************************************************)
EXTENDS Naturals, Sequences, FiniteSets, TLC

\* ------------------------------------------------------------------ bounds
\* Host names h1..hN and non-root group names g1..gN of the raw documents.
NumHosts == 2
NumGroups == 2
\* Most (group, host) entries in the hosts lists of one raw document.
MaxListed == 2

HostName(i) == "h" \o ToString(i)
GroupName(i) == "g" \o ToString(i)
HostNames == {HostName(i) : i \in 1..NumHosts}
OrdinaryGroups == {GroupName(i) : i \in 1..NumGroups}
GroupKeys == {"all"} \cup OrdinaryGroups

NoVars == [n \in {} |-> ""]

\* ------------------------------------------------- raw inventory document
\* A document is [listed, shape, meta, hostvars]:
\*   listed    the pairs <<g, h>> with h in the 'hosts' list of group g;
\*   shape     "full": every group entry carries 'children' and 'vars';
\*             "bare": group entries carry neither key;
\*   meta      "present", or "missing" when the document has no '_meta';
\*   hostvars  the keys of _meta.hostvars.
\* Controller never returns cyclic group relationships: in a full document
\* 'all' lists every group as a child and g(i) lists g(i+1).
Listings == {S \in SUBSET (GroupKeys \X HostNames) : Cardinality(S) <= MaxListed}

HostvarKeySets == {HostNames} \cup {HostNames \ {h} : h \in HostNames}

RawDocuments ==
    [listed : Listings, shape : {"bare", "full"}, meta : {"present"},
     hostvars : HostvarKeySets]
    \cup
    [listed : Listings, shape : {"bare", "full"}, meta : {"missing"},
     hostvars : {{}}]

NoDocument == [listed |-> {}, shape |-> "bare", meta |-> "missing", hostvars |-> {}]

\* six.iteritems(inventory): the top-level keys in document order.
DocKeys(doc) ==
    <<"all">> \o [i \in 1..NumGroups |-> GroupName(i)]
              \o (IF doc.meta = "present" THEN <<"_meta">> ELSE <<>>)

\* group_content.get('hosts', [])
DocHosts(doc, g) == {h \in HostNames : <<g, h>> \in doc.listed}

\* group_content.get('children', [])
DocChildren(doc, g) ==
    IF doc.shape = "bare" \/ g = "_meta" THEN {}
    ELSE IF g = "all" THEN OrdinaryGroups
    ELSE {GroupName(i + 1) : i \in {j \in 1..NumGroups : GroupName(j) = g /\ j < NumGroups}}

\* group_content.get('vars', {})
DocVars(doc, g) ==
    IF doc.shape = "bare" \/ g = "_meta" THEN NoVars
    ELSE [n \in {"env"} |-> "prod-" \o g]

\* inventory['_meta']['hostvars'][host_name]
DocHostVars(doc, h) == [n \in {"ip"} |-> "addr-" \o h]

\* ---------------------------------------------------------- filter options
Unset == [kind |-> "unset", matches |-> {}]
Invalid == [kind |-> "invalid", matches |-> {}]
Pattern(names) == [kind |-> "pattern", matches |-> names]

\* By the symmetry of the host names one pattern matching a single host
\* stands for every such pattern.
HostFilterOptions == {Unset, Invalid, Pattern({HostName(1)})}
GroupFilterOptions == {Unset, Invalid} \cup {Pattern({g}) : g \in GroupKeys}

\* pattern.search(name)
Search(pattern, name) == name \in pattern.matches

\* ------------------------------------------------------- server config doc
\* The /api/v2/config/ document: the set of top-level keys it has, and
\* whether license_info has a license_type.
FullConfig == [keys |-> {"license_info", "version", "ansible_version"}, typed |-> TRUE]

ConfigDocuments ==
    {FullConfig}
    \cup {[FullConfig EXCEPT !.keys = @ \ {k}] : k \in FullConfig.keys}
    \cup {[FullConfig EXCEPT !.typed = FALSE]}
    \cup {[keys |-> {}, typed |-> FALSE]}

NoConfig == [keys |-> {}, typed |-> FALSE]

\* The value the server sends for a field of the config document.
ConfigValue(key) ==
    IF key = "license_type" THEN "enterprise"
    ELSE IF key = "version" THEN "4.2.0" ELSE "2.13.1"

VARIABLES
    pc,                 \* the place parse() has reached
    err,                \* the exception that ended the run, or "none"
    fetches,            \* the GET requests issued so far, in order
    outcomes,           \* how each of them ended: "ok", "transport", "parse"
    name_results,       \* what the name-resolution query returned
    hosts_pattern, hostgroups_pattern, groups_pattern,
    inventory,          \* the raw document of the inventory endpoint
    idx,                \* position of the running loop in DocKeys(inventory)
    allowed_hosts, allowed_groups,
    groups, hosts, members, children, gvars, hvars,   \* self.inventory
    include_metadata, config_data,
    reconciled

graph == <<groups, hosts, members, children, gvars, hvars>>
vars == <<pc, err, fetches, outcomes, name_results, hosts_pattern, hostgroups_pattern,
          groups_pattern, inventory, idx, allowed_hosts, allowed_groups,
          groups, hosts, members, children, gvars, hvars, include_metadata,
          config_data, reconciled>>

\* ------------------------------------------------- the inventory object
\* InventoryData.set_variable: one variable of a group or host is (re)bound.
SetVariable(varsOf, entity, name, value) ==
    [varsOf EXCEPT ![entity] =
        [n \in DOMAIN @ \cup {name} |-> IF n = name THEN value ELSE @[n]]]

\* set_variable called for every item of a mapping.
SetVariables(varsOf, entity, mapping) ==
    [varsOf EXCEPT ![entity] =
        [n \in DOMAIN @ \cup DOMAIN mapping |->
            IF n \in DOMAIN mapping THEN mapping[n] ELSE @[n]]]

\* ------------------------------------------------------------ make_request
RequestFailures == {"transport", "parse"}

\* Mutant of MakeRequestError: a body that is not JSON raises nothing.
MakeRequestErrorNoParse(outcome) ==
    IF outcome = "transport" THEN "AnsibleParserError" ELSE "none"

\* The exception make_request raises for an outcome of the GET.
MakeRequestError(outcome) ==
    IF outcome \in RequestFailures THEN "AnsibleParserError" ELSE "none"

\* ------------------------------------------------- admission (lines 253-264)
\* Mutant of AdmitsGroup: the root group is filtered like any other group.
AdmitsGroupNoRoot(pattern, group_name) ==
    ~(pattern.kind = "pattern" /\ ~Search(pattern, group_name))

\* Line 253 negated: the group is not skipped by the groups filter.
AdmitsGroup(pattern, group_name) ==
    ~(pattern.kind = "pattern" /\ ~Search(pattern, group_name) /\ group_name # "all")

\* Line 258: the hosts of this group are scanned for allowed hosts.
ScansHosts(pattern, group_name) ==
    pattern.kind # "pattern" \/ Search(pattern, group_name)

\* Lines 259-264: the hosts of a scanned group that become allowed.
AdmittedHosts(pattern, host_names) ==
    IF pattern.kind # "pattern" THEN host_names
    ELSE {h \in host_names : Search(pattern, h)}

\* Lines 268-271: the hosts phase 2 creates.
HostsToCreate(doc, allowed) == {h \in doc.hostvars : h \in allowed}

\* Mutant of MembersToAdd: membership is gated by the hostgroups filter too.
MembersToAddScanned(doc, group_name, allowed) ==
    IF ScansHosts(hostgroups_pattern, group_name)
    THEN {h \in DocHosts(doc, group_name) : h \in allowed}
    ELSE {}

\* Lines 281-284: the hosts phase 3 passes to add_host(host_name, group_name).
MembersToAdd(doc, group_name, allowed) ==
    {h \in DocHosts(doc, group_name) : h \in allowed}

\* Mutant of ChildrenToAdd: every child reference becomes an edge.
ChildrenToAddUnchecked(doc, group_name, allowed) == DocChildren(doc, group_name)

\* Lines 286-289: the child groups phase 3 passes to add_child.
ChildrenToAdd(doc, group_name, allowed) ==
    {c \in DocChildren(doc, group_name) : c \in allowed}

\* Mutant of ServerData: version is read with the key of ansible_version.
ServerDataSameKey(config) ==
    [license_type |->
        IF "license_info" \in config.keys /\ config.typed
        THEN ConfigValue("license_type") ELSE "unknown",
     version |->
        IF "ansible_version" \in config.keys
        THEN ConfigValue("ansible_version") ELSE "unknown",
     ansible_version |->
        IF "ansible_version" \in config.keys
        THEN ConfigValue("ansible_version") ELSE "unknown"]

\* Lines 299-302: the controller_metadata mapping.
ServerData(config) ==
    [license_type |->
        IF "license_info" \in config.keys /\ config.typed
        THEN ConfigValue("license_type") ELSE "unknown",
     version |->
        IF "version" \in config.keys THEN ConfigValue("version") ELSE "unknown",
     ansible_version |->
        IF "ansible_version" \in config.keys
        THEN ConfigValue("ansible_version") ELSE "unknown"]

\* Line 296: the config endpoint is queried.
WantsMetadata(option) == option

\* ------------------------------------------------------------------- Init
Init ==
    /\ pc = "validate"
    /\ err = "none"
    /\ fetches = <<>>
    /\ outcomes = <<>>
    /\ name_results = "none"
    /\ hosts_pattern = Unset
    /\ hostgroups_pattern = Unset
    /\ groups_pattern = Unset
    /\ inventory = NoDocument
    /\ idx = 1
    /\ allowed_hosts = {}
    /\ allowed_groups = {}
    /\ groups = {}
    /\ hosts = {}
    /\ members = {}
    /\ children = {}
    /\ gvars = [g \in GroupKeys |-> NoVars]
    /\ hvars = [h \in HostNames |-> NoVars]
    /\ include_metadata = FALSE
    /\ config_data = NoConfig
    /\ reconciled = FALSE

\* ---------------------------------------------------------------- actions
\* Lines 207-218: inventory_name is a str, or ensure_type converts it, or
\* ensure_type raises ValueError.
ValidateInventoryName ==
    /\ pc = "validate" /\ err = "none"
    /\ \E kind \in {"str", "convertible", "unconvertible"} :
        IF kind = "unconvertible"
        THEN err' = "AnsibleOptionsError" /\ pc' = pc
        ELSE err' = err /\ pc' = "resolve"
    /\ UNCHANGED <<fetches, outcomes, name_results, hosts_pattern,
                   hostgroups_pattern, groups_pattern, inventory, idx, allowed_hosts,
                   allowed_groups, graph, include_metadata, config_data, reconciled>>

\* Lines 220-229: the name-resolution query and results[0]['id'].
ResolveName ==
    /\ pc = "resolve" /\ err = "none"
    /\ fetches' = Append(fetches, "name")
    /\ \E outcome \in RequestFailures \cup {"empty", "found"} :
        /\ name_results' = outcome
        /\ outcomes' = Append(outcomes, IF outcome \in RequestFailures
                                        THEN outcome ELSE "ok")
        /\ IF outcome \in RequestFailures
           THEN err' = MakeRequestError(outcome) /\ pc' = pc
           ELSE IF outcome = "empty"
           THEN err' = "IndexError" /\ pc' = pc
           ELSE err' = err /\ pc' = "filters"
    /\ UNCHANGED <<hosts_pattern, hostgroups_pattern, groups_pattern, inventory,
                   idx, allowed_hosts, allowed_groups, graph, include_metadata,
                   config_data, reconciled>>

\* Lines 231-246: the three filters are compiled in turn; re.compile raises
\* re.error on an invalid expression.
CompileFilters ==
    /\ pc = "filters" /\ err = "none"
    /\ \E hf \in HostFilterOptions, hgf \in GroupFilterOptions, gf \in GroupFilterOptions :
        /\ hosts_pattern' = IF hf = Invalid THEN hosts_pattern ELSE hf
        /\ hostgroups_pattern' =
              IF Invalid \in {hf, hgf} THEN hostgroups_pattern ELSE hgf
        /\ groups_pattern' =
              IF Invalid \in {hf, hgf, gf} THEN groups_pattern ELSE gf
        /\ IF Invalid \in {hf, hgf, gf}
           THEN err' = "re.error" /\ pc' = pc
           ELSE err' = err /\ pc' = "fetch"
    /\ UNCHANGED <<fetches, outcomes, name_results, inventory, idx, allowed_hosts,
                   allowed_groups, graph, include_metadata, config_data, reconciled>>

\* Lines 248-250: the inventory script endpoint.
FetchInventory ==
    /\ pc = "fetch" /\ err = "none"
    /\ fetches' = Append(fetches, "inventory")
    /\ \/ \E outcome \in RequestFailures :
            /\ outcomes' = Append(outcomes, outcome)
            /\ err' = MakeRequestError(outcome)
            /\ UNCHANGED <<pc, inventory>>
       \/ \E doc \in RawDocuments :
            /\ outcomes' = Append(outcomes, "ok")
            /\ inventory' = doc
            /\ pc' = "phase1"
            /\ err' = err
    /\ allowed_hosts' = {}
    /\ allowed_groups' = {}
    /\ idx' = 1
    /\ UNCHANGED <<name_results, hosts_pattern, hostgroups_pattern, groups_pattern,
                   graph, include_metadata, config_data, reconciled>>

\* Lines 252-264: one iteration of the first loop.
DiscoverGroup ==
    /\ pc = "phase1" /\ err = "none"
    /\ LET keys == DocKeys(inventory)
           group_name == keys[idx]
           admitted == AdmitsGroup(groups_pattern, group_name) /\ group_name # "_meta"
       IN /\ allowed_groups' =
                IF admitted THEN allowed_groups \cup {group_name} ELSE allowed_groups
          /\ groups' = IF admitted THEN groups \cup {group_name} ELSE groups
          /\ allowed_hosts' =
                IF admitted /\ ScansHosts(hostgroups_pattern, group_name)
                THEN allowed_hosts
                        \cup AdmittedHosts(hosts_pattern, DocHosts(inventory, group_name))
                ELSE allowed_hosts
          /\ IF idx < Len(keys)
             THEN idx' = idx + 1 /\ pc' = pc
             ELSE idx' = 1 /\ pc' = "phase2"
    /\ UNCHANGED <<err, fetches, outcomes, name_results, hosts_pattern,
                   hostgroups_pattern, groups_pattern, inventory, hosts, members, children, gvars,
                   hvars, include_metadata, config_data, reconciled>>

\* Lines 266-273: inventory['_meta']['hostvars'] and the second loop.
CreateHosts ==
    /\ pc = "phase2" /\ err = "none"
    /\ IF inventory.meta = "missing"
       THEN /\ err' = "KeyError"
            /\ UNCHANGED <<pc, hosts, hvars>>
       ELSE /\ hosts' = hosts \cup HostsToCreate(inventory, allowed_hosts)
            /\ hvars' = [h \in HostNames |->
                            IF h \in HostsToCreate(inventory, allowed_hosts)
                            THEN SetVariables(hvars, h, DocHostVars(inventory, h))[h]
                            ELSE hvars[h]]
            /\ pc' = "phase3"
            /\ err' = err
    /\ UNCHANGED <<fetches, outcomes, name_results, hosts_pattern,
                   hostgroups_pattern, groups_pattern, inventory, idx, allowed_hosts,
                   allowed_groups, groups, members, children, gvars, include_metadata, config_data,
                   reconciled>>

\* Lines 276-293: one iteration of the third loop.  add_host(host, group)
\* of InventoryData creates a host it does not know yet.
LinkGroup ==
    /\ pc = "phase3" /\ err = "none"
    /\ LET keys == DocKeys(inventory)
           group_name == keys[idx]
           allowed == group_name \in allowed_groups
           ordinary == allowed /\ group_name # "all" /\ group_name # "_meta"
           new_members == MembersToAdd(inventory, group_name, allowed_hosts)
           new_children == ChildrenToAdd(inventory, group_name, allowed_groups)
       IN /\ hosts' = IF ordinary THEN hosts \cup new_members ELSE hosts
          /\ members' =
                IF ordinary
                THEN members \cup {<<group_name, h>> : h \in new_members}
                ELSE members
          /\ children' =
                IF ordinary
                THEN children \cup {<<group_name, c>> : c \in new_children}
                ELSE children
          /\ gvars' =
                IF allowed /\ group_name # "_meta"
                THEN SetVariables(gvars, group_name, DocVars(inventory, group_name))
                ELSE gvars
          /\ IF idx < Len(keys)
             THEN idx' = idx + 1 /\ pc' = pc
             ELSE idx' = 1 /\ pc' = "metadata"
    /\ UNCHANGED <<err, fetches, outcomes, name_results, hosts_pattern,
                   hostgroups_pattern, groups_pattern, inventory, allowed_hosts, allowed_groups, groups,
                   hvars, include_metadata, config_data, reconciled>>

\* Lines 295-303: the optional server config.
FetchMetadata ==
    /\ pc = "metadata" /\ err = "none"
    /\ \E option \in BOOLEAN :
        /\ include_metadata' = option
        /\ IF ~WantsMetadata(option)
           THEN /\ pc' = "reconcile"
                /\ UNCHANGED <<err, fetches, outcomes, config_data, gvars>>
           ELSE /\ fetches' = Append(fetches, "config")
                /\ \/ \E outcome \in RequestFailures :
                        /\ outcomes' = Append(outcomes, outcome)
                        /\ err' = MakeRequestError(outcome)
                        /\ UNCHANGED <<pc, config_data, gvars>>
                   \/ \E config \in ConfigDocuments :
                        /\ outcomes' = Append(outcomes, "ok")
                        /\ config_data' = config
                        /\ gvars' = SetVariable(gvars, "all", "controller_metadata",
                                                ServerData(config))
                        /\ pc' = "reconcile"
                        /\ err' = err
    /\ UNCHANGED <<name_results, hosts_pattern, hostgroups_pattern, groups_pattern,
                   inventory, idx, allowed_hosts, allowed_groups, groups, hosts,
                   members, children, hvars, reconciled>>

\* Line 306: InventoryData.reconcile_inventory puts every group without a
\* parent under 'all' and every host without a group into 'ungrouped'.
Reconcile ==
    /\ pc = "reconcile" /\ err = "none"
    /\ reconciled' = TRUE
    /\ children' = children \cup
          {<<"all", g>> : g \in {x \in (groups \cup {"ungrouped"}) \ {"all"} :
                                    ~\E p \in GroupKeys : <<p, x>> \in children}}
    /\ members' = members \cup
          {<<"ungrouped", h>> : h \in {x \in hosts :
                                          ~\E g \in GroupKeys : <<g, x>> \in members}}
    /\ pc' = "done"
    /\ UNCHANGED <<err, fetches, outcomes, name_results, hosts_pattern,
                   hostgroups_pattern, groups_pattern, inventory, idx, allowed_hosts, allowed_groups,
                   groups, hosts, gvars, hvars, include_metadata, config_data>>

Next ==
    \/ ValidateInventoryName
    \/ ResolveName
    \/ CompileFilters
    \/ FetchInventory
    \/ DiscoverGroup
    \/ CreateHosts
    \/ LinkGroup
    \/ FetchMetadata
    \/ Reconcile

Spec == Init /\ [][Next]_vars

\* ==================================================== what the spec states
Range(s) == {s[i] : i \in DOMAIN s}

\* The admission rules of the spec over the raw document and the filters.
PassesGroupsFilter(g) ==
    groups_pattern.kind # "pattern" \/ g \in groups_pattern.matches \/ g = "all"

PassesHostgroupsFilter(g) ==
    hostgroups_pattern.kind # "pattern" \/ g \in hostgroups_pattern.matches

PassesHostsFilter(h) ==
    hosts_pattern.kind # "pattern" \/ h \in hosts_pattern.matches

\* The top-level keys of the raw document other than _meta.
TopLevelGroups == Range(DocKeys(inventory)) \ {"_meta"}

AdmittedGroups == {g \in TopLevelGroups : PassesGroupsFilter(g)}

AdmittedHostNames ==
    {h \in HostNames :
        /\ PassesHostsFilter(h)
        /\ \E g \in AdmittedGroups :
              PassesHostgroupsFilter(g) /\ <<g, h>> \in inventory.listed}

\* The third loop has run to its end (the graph is constructed).
Constructed == pc \in {"metadata", "reconcile", "done"}

\* Nothing has been added to the inventory object ('all' is a group of
\* InventoryData before the run, so add_group('all') adds nothing).
GraphEmpty ==
    /\ groups \subseteq {"all"} /\ hosts = {} /\ members = {} /\ children = {}
    /\ \A g \in GroupKeys : gvars[g] = NoVars
    /\ \A h \in HostNames : hvars[h] = NoVars

\* C1 (as stated): once the graph is constructed, h is a host of the graph
\* iff h is a key of _meta.hostvars, passes the hosts filter and is listed in
\* a group that passes the groups filter and the hostgroups filter.
C1_HostsIffInHostvars ==
    (Constructed /\ ~reconciled /\ err = "none")
        => hosts = {h \in AdmittedHostNames : h \in inventory.hostvars}

\* C2: while the graph is built and at its end, every group, host, membership
\* edge and child edge lies within the allowed sets, _meta is no group, and
\* the third loop raises no error (a child that is not allowed is dropped).
C2_ClosedUnderAllowed ==
    ~reconciled =>
        /\ allowed_groups \subseteq AdmittedGroups
        /\ allowed_hosts \subseteq AdmittedHostNames
        /\ groups \subseteq allowed_groups
        /\ "_meta" \notin groups
        /\ hosts \subseteq allowed_hosts
        /\ \A m \in members : m[1] \in allowed_groups /\ m[2] \in allowed_hosts
        /\ \A c \in children : c[1] \in allowed_groups /\ c[2] \in allowed_groups
        /\ (pc = "phase3" => err = "none")

\* C2 witness: the graph is constructed, one child edge was added and one
\* child reference to a group that is not allowed was dropped.
C2_Witness ==
    /\ pc = "metadata" /\ err = "none"
    /\ hosts # {}
    /\ \E g \in allowed_groups \ {"all"} :
          \E c \in DocChildren(inventory, g) :
              c \notin allowed_groups /\ <<g, c>> \notin children

\* C3 (as stated): with a groups filter and no hostgroups filter, only groups
\* matching the groups filter (and 'all') exist, and every host of the graph
\* is listed in a group that matches the groups filter.
C3_OnlyHostsOfMatchingGroups ==
    (Constructed /\ err = "none"
        /\ groups_pattern.kind = "pattern" /\ hostgroups_pattern.kind = "unset")
        => /\ groups \subseteq groups_pattern.matches \cup {"all"}
           /\ \A h \in hosts :
                 \E g \in groups_pattern.matches : <<g, h>> \in inventory.listed

\* C4: once the graph is constructed, the groups are exactly the top-level
\* groups that pass the groups filter (or are 'all'), whatever the hosts and
\* hostgroups filters, and each has every entry of its vars set on it.
C4_GroupsAndVarsByGroupsFilter ==
    Constructed =>
        /\ groups = AdmittedGroups
        /\ \A g \in AdmittedGroups :
              \A n \in DOMAIN DocVars(inventory, g) :
                  n \in DOMAIN gvars[g] /\ gvars[g][n] = DocVars(inventory, g)[n]

\* C4 witness: a final graph without hosts, where a group whose hosts were
\* all filtered out by the hostgroups filter is present with its vars.
C4_Witness ==
    /\ pc = "done"
    /\ hosts = {}
    /\ hostgroups_pattern.kind = "pattern"
    /\ \E g \in OrdinaryGroups :
          /\ DocHosts(inventory, g) # {}
          /\ g \notin hostgroups_pattern.matches
          /\ g \in groups
          /\ "env" \in DOMAIN gvars[g]

\* C5 (as stated): an empty name-resolution result ends the run in one of
\* the plugin's own descriptive errors, and the inventory endpoint is never requested.
C5_EmptyLookupIsParserError ==
    name_results = "empty"
        => /\ err \in {"AnsibleParserError", "AnsibleOptionsError"}
           /\ "inventory" \notin Range(fetches)

\* C6 (as stated): a run that ends in a configuration error (inventory_name
\* not convertible, or an invalid filter expression) has issued no fetch.
C6_ConfigErrorBeforeNetwork ==
    err \in {"AnsibleOptionsError", "re.error"} => fetches = <<>>

\* C7 (as stated): a run that ended in a fatal error has added nothing to
\* the inventory graph.
C7_NoPartialResult == err # "none" => GraphEmpty

\* The group variables without the one the metadata step adds.
BuilderVars(gv) ==
    [g \in GroupKeys |-> [n \in DOMAIN gv[g] \ {"controller_metadata"} |-> gv[g][n]]]

\* C8: the fetches are name-resolution, inventory, config in this order, each
\* at most once, config only with include_metadata; groups, hosts, edges and
\* group vars are built after the inventory fetch and before the config
\* fetch; after a failure nothing more happens, reconciliation included.
C8_FetchOrderAndAbort ==
    /\ [](/\ \E n \in 0..3 : fetches = SubSeq(<<"name", "inventory", "config">>, 1, n)
          /\ ("config" \in Range(fetches) => include_metadata)
          /\ Len(outcomes) = Len(fetches)
          /\ \A i \in DOMAIN outcomes :
                outcomes[i] \in RequestFailures
                    => i = Len(fetches) /\ err = "AnsibleParserError"
          /\ (err # "none" => ~reconciled)
          /\ (reconciled => Len(fetches) >= 2))
    /\ [][/\ err = "none"
          /\ (\/ <<groups, hosts, hvars>>' # <<groups, hosts, hvars>>
              \/ BuilderVars(gvars') # BuilderVars(gvars)
              \/ (<<members, children>>' # <<members, children>> /\ ~reconciled'))
                => (fetches = <<"name", "inventory">> /\ fetches' = fetches)]_vars

\* C8 witness: a completed run with all three fetches and a built graph.
C8_Witness ==
    /\ pc = "done" /\ reconciled
    /\ fetches = <<"name", "inventory", "config">>
    /\ outcomes = <<"ok", "ok", "ok">>
    /\ hosts # {} /\ members # {}

\* A field of the config document is present.
ConfigHas(config, field) ==
    IF field = "license_type"
    THEN "license_info" \in config.keys /\ config.typed
    ELSE field \in config.keys

\* C9: with include_metadata the config is fetched and, when the fetch
\* succeeds, 'all' gets the one new variable controller_metadata with the keys
\* license_type, version and ansible_version, each the field of the config
\* document or 'unknown', and nothing else of the graph changes; without
\* include_metadata there is no config fetch and no such variable.
C9_MetadataOnRoot ==
    /\ []((Constructed /\ pc # "metadata" /\ ~include_metadata)
            => /\ "config" \notin Range(fetches)
               /\ "controller_metadata" \notin DOMAIN gvars["all"])
    /\ [][pc = "metadata" =>
            IF include_metadata'
            THEN /\ fetches' = Append(fetches, "config")
                 /\ UNCHANGED <<groups, hosts, members, children, hvars>>
                 /\ BuilderVars(gvars') = gvars
                 /\ err' = "none" =>
                      /\ DOMAIN gvars'["all"] =
                            DOMAIN gvars["all"] \cup {"controller_metadata"}
                      /\ DOMAIN gvars'["all"]["controller_metadata"] =
                            {"license_type", "version", "ansible_version"}
                      /\ \A f \in {"license_type", "version", "ansible_version"} :
                            gvars'["all"]["controller_metadata"][f] =
                               IF ConfigHas(config_data', f)
                               THEN ConfigValue(f) ELSE "unknown"
            ELSE UNCHANGED <<fetches, outcomes, graph>>]_vars

\* C9 witness: a completed run under all three filters whose config document
\* lacks a field, with controller_metadata set on 'all'.
C9_Witness ==
    /\ pc = "done" /\ include_metadata
    /\ hosts_pattern.kind = "pattern"
    /\ hostgroups_pattern.kind = "pattern"
    /\ groups_pattern.kind = "pattern"
    /\ "version" \notin config_data.keys
    /\ "license_info" \in config_data.keys
    /\ "controller_metadata" \in DOMAIN gvars["all"]
    /\ gvars["all"]["controller_metadata"].version = "unknown"

\* C10: once the graph is constructed, g -> h is a membership edge iff g is
\* an admitted group other than 'all', h is listed in g and h is an allowed
\* host; no host is attached to 'all' and 'all' has no child edge.
C10_MembershipEdges ==
    (Constructed /\ ~reconciled) =>
        /\ members =
              {m \in (AdmittedGroups \ {"all"}) \X AdmittedHostNames :
                  m \in inventory.listed}
        /\ \A m \in members : m[1] # "all"
        /\ \A c \in children : c[1] # "all"

\* C10 witness: a host admitted through one group is a member of another
\* group that the hostgroups filter does not match, and 'all' lists hosts
\* and children of its own.
C10_Witness ==
    /\ pc = "metadata" /\ err = "none"
    /\ hostgroups_pattern.kind = "pattern"
    /\ \E m \in members : m[1] \notin hostgroups_pattern.matches
    /\ \E h \in HostNames : <<"all", h>> \in inventory.listed
    /\ DocChildren(inventory, "all") # {}

====
